---- MODULE Spec2Model ----
(***************************************************************************)
(* A model of the prompt-optimization backend and its live-update channel. *)
(*                                                                         *)
(*   optimization-backend/app.py  the full backend: ConnectionManager,     *)
(*                                RealTimeAnalytics, optimize_prompt       *)
(*   api/optimize.py              the lightweight backend: the global      *)
(*   start-fastapi.py             active_connections list and              *)
(*                                broadcast_message (the two files hold    *)
(*                                the same websocket code)                 *)
(*                                                                         *)
(* The servers are asyncio programs: one thread, and a task gives up the   *)
(* processor only at an await.  Every action below is the code between two *)
(* awaits of one task.                                                     *)
(***************************************************************************)
EXTENDS Integers, Sequences, FiniteSets, TLC

\* Number of websocket handles that ever connect in a run.
MaxSubs == 3

Handles == 1..MaxSubs

VARIABLES
    active_connections, \* the registry: a Python list of websocket handles
    accepted,           \* handles whose connection was accepted at some time
    dead,               \* handles whose client has gone: a send to them raises
    bc,                 \* the broadcast call in progress (its frame)
    attempts,           \* observation: send attempts per handle in the current broadcast
    delivered,          \* observation: handles a send of the current broadcast reached
    reg0,               \* observation: the registry when the current broadcast started
    metrics_history,    \* RealTimeAnalytics.metrics_history
    clock,              \* the number of update_metrics calls so far (time of the entries)
    agg_calls,          \* observation: the last calls of RealTimeAnalytics, newest last
    opt,                \* the optimize_prompt call in progress (its frame)
    response,           \* the last HTTP response of POST /optimize
    pending,            \* the requests that are still to arrive
    ended,              \* handles whose websocket_endpoint task (app.py) is over
    ep                  \* the websocket_endpoint task of each handle (its frame)

regVars == <<active_connections, accepted, dead>>
bcVars  == <<bc, attempts, delivered, reg0>>
metVars == <<metrics_history, clock, agg_calls>>
optVars == <<opt, response, pending, ended>>
vars    == <<active_connections, accepted, dead, bc, attempts, delivered, reg0,
             metrics_history, clock, agg_calls, opt, response, pending, ended, ep>>

Range(s) == {s[i] : i \in 1..Len(s)}

Min(a, b) == IF a < b THEN a ELSE b

-----------------------------------------------------------------------------
(* Python lists *)

\* The position of the first element equal to x; 0 when there is none.
ListIndex(s, x) ==
    IF \E i \in 1..Len(s) : s[i] = x
    THEN CHOOSE i \in 1..Len(s) : s[i] = x /\ \A j \in 1..(i - 1) : s[j] # x
    ELSE 0

\* A removal that drops the last element, whatever x is.
ListRemoveLast(s, x) == SubSeq(s, 1, Len(s) - 1)

\* list.remove(x): drops the first element equal to x.  The caller has
\* checked that x is in the list (list.remove raises ValueError otherwise).
ListRemove(s, x) ==
    LET k == ListIndex(s, x)
    IN  SubSeq(s, 1, k - 1) \o SubSeq(s, k + 1, Len(s))

-----------------------------------------------------------------------------
(* The registry *)

NoBroadcast == [pc |-> "idle", impl |-> "none", i |-> 0, cur |-> 0,
                disconnected |-> <<>>]

InitRegistry ==
    /\ active_connections = <<>>
    /\ accepted = {}
    /\ dead = {}
    /\ bc = NoBroadcast
    /\ attempts = [h \in Handles |-> 0]
    /\ delivered = {}
    /\ reg0 = <<>>

\* ConnectionManager.connect (app.py) and the first two lines of
\* websocket_endpoint (api/optimize.py, start-fastapi.py): the accepted
\* handle is appended to the registry.  A handle connects once: a client
\* that reconnects gets a new WebSocket object.
connect(h) ==
    /\ h \notin accepted
    /\ accepted' = accepted \cup {h}
    /\ active_connections' = Append(active_connections, h)
    /\ UNCHANGED dead

\* The client of h goes away; from now on a send to h raises.
ClientDrop(h) ==
    /\ h \in accepted
    /\ h \notin dead
    /\ dead' = dead \cup {h}
    /\ UNCHANGED <<active_connections, accepted>>

\* No optimize_prompt call is in progress, and none has been answered.
NoCall == [pc |-> "idle"]

NoResponse == [status |-> 0]

\* No message.
NoMessage == [type |-> "none"]

\* The frame of an endpoint task that has not started.
NoEndpoint == [impl |-> "none", pc |-> "new", where |-> "none",
               inbound |-> NoMessage, out |-> NoMessage,
               first |-> NoMessage, registered0 |-> 0]

InitHandlers ==
    /\ opt = NoCall
    /\ response = NoResponse
    /\ ended = {}
    /\ ep = [h \in Handles |-> NoEndpoint]

-----------------------------------------------------------------------------
(* Python strings: a text is the sequence of its characters *)

Whitespace == {" "}

Lower(c) ==
    CASE c = "A" -> "a" [] c = "B" -> "b" [] c = "C" -> "c" [] c = "I" -> "i"
      [] c = "P" -> "p" [] c = "R" -> "r" [] OTHER -> c

\* str.lower()
StrLower(text) == [i \in 1..Len(text) |-> Lower(text[i])]

\* Whether `sub` starts at position i of `text`.
StartsAt(text, sub, i) ==
    /\ i + Len(sub) - 1 <= Len(text)
    /\ \A j \in 1..Len(sub) : text[i + j - 1] = sub[j]

\* sub in text
Contains(text, sub) == \E i \in 1..(Len(text) - Len(sub) + 1) : StartsAt(text, sub, i)

\* The least position of a non-empty set of positions.
First(positions) == CHOOSE p \in positions : \A q \in positions : p <= q

\* str.replace(old, new) from position i on: the occurrences of `old` are
\* taken from the left and do not overlap; what replaces one is not scanned
\* again.  `old` is never empty here.
RECURSIVE ReplaceFrom(_, _, _, _)
ReplaceFrom(text, old, new, i) ==
    LET found == {p \in i..(Len(text) - Len(old) + 1) : StartsAt(text, old, p)}
    IN  IF found = {} THEN SubSeq(text, i, Len(text))
        ELSE SubSeq(text, i, First(found) - 1) \o new
                 \o ReplaceFrom(text, old, new, First(found) + Len(old))

\* str.replace(old, new)
StrReplace(text, old, new) == ReplaceFrom(text, old, new, 1)

\* The words of text[i..]: str.split() cuts at every run of whitespace and
\* yields no empty word.
RECURSIVE SplitFrom(_, _)
SplitFrom(text, i) ==
    LET solid == {p \in i..Len(text) : text[p] \notin Whitespace}
    IN  IF solid = {} THEN <<>>
        ELSE LET start  == First(solid)
                 blanks == {p \in start..Len(text) : text[p] \in Whitespace}
                 stop   == IF blanks = {} THEN Len(text) + 1 ELSE First(blanks)
             IN  <<SubSeq(text, start, stop - 1)>> \o SplitFrom(text, stop)

\* str.split()
StrSplit(text) == SplitFrom(text, 1)

\* ' '.join(words)
RECURSIVE JoinWords(_)
JoinWords(words) ==
    IF words = <<>> THEN <<>>
    ELSE IF Len(words) = 1 THEN words[1]
    ELSE words[1] \o <<" ">> \o JoinWords(Tail(words))

\* str.strip()
StrStrip(text) ==
    LET solid == {i \in 1..Len(text) : text[i] \notin Whitespace}
    IN  IF solid = {} THEN <<>>
        ELSE SubSeq(text, CHOOSE i \in solid : \A j \in solid : i <= j,
                          CHOOSE i \in solid : \A j \in solid : i >= j)

\* The replacements k, k+1, ... of `table` (pairs <<old, new>>) applied one
\* after the other, each to the whole text the one before left.  An empty
\* text stays empty whatever is replaced in it.
RECURSIVE ReplaceEach(_, _, _)
ReplaceEach(text, table, k) ==
    IF text = <<>> \/ k > Len(table) THEN text
    ELSE ReplaceEach(StrReplace(text, table[k][1], table[k][2]), table, k + 1)

ReplaceAll(text, table) == ReplaceEach(text, table, 1)

-----------------------------------------------------------------------------
(* The optimization strategies of the full backend (app.py) *)

\* The keys of AdvancedOptimizationStrategies.strategies.
StrategyNames == {"entropy_optimization", "semantic_compression",
                  "context_aware_trimming", "ml_guided_optimization",
                  "adaptive_compression"}

\* MLOptimizationEngine._calculate_complexity: the phrases it looks for.
complexity_indicators == <<
    <<"m", "a", "c", "h", "i", "n", "e", " ", "l", "e", "a", "r", "n", "i", "n", "g">>,
    <<"n", "e", "u", "r", "a", "l", " ", "n", "e", "t", "w", "o", "r", "k">>,
    <<"d", "e", "e", "p", " ", "l", "e", "a", "r", "n", "i", "n", "g">>,
    <<"a", "l", "g", "o", "r", "i", "t", "h", "m">>,
    <<"o", "p", "t", "i", "m", "i", "z", "a", "t", "i", "o", "n">>,
    <<"p", "e", "r", "f", "o", "r", "m", "a", "n", "c", "e">>,
    <<"s", "c", "a", "l", "a", "b", "i", "l", "i", "t", "y">>,
    <<"m", "i", "c", "r", "o", "s", "e", "r", "v", "i", "c", "e", "s">>,
    <<"r", "e", "a", "l", "-", "t", "i", "m", "e">>,
    <<"a", "s", "y", "n", "c", "h", "r", "o", "n", "o", "u", "s">>,
    <<"c", "o", "n", "c", "u", "r", "r", "e", "n", "t">>,
    <<"d", "i", "s", "t", "r", "i", "b", "u", "t", "e", "d">> >>

\* MLOptimizationEngine._calculate_complexity, in thousandths: a fifth for
\* every indicator that occurs in the lower-cased prompt, at most 1.0.
calculate_complexity(prompt) ==
    LET prompt_lower == StrLower(prompt)
        complexity_score == Cardinality({k \in 1..Len(complexity_indicators) :
                                Contains(prompt_lower, complexity_indicators[k])})
    IN  Min(1000, complexity_score * 200)

\* How many of `words` equal `word`.
WordFreq(words, word) == Cardinality({i \in 1..Len(words) : words[i] = word})

\* A pruning that counts again after every word it drops: the share of a
\* word is taken over the words kept so far and those still to come.
entropy_progressive(prompt) ==
    LET words == StrSplit(prompt)
        n == Len(words)
        kept[i \in 0..n] ==
            IF i = 0 THEN <<>>
            ELSE LET current == kept[i - 1] \o SubSeq(words, i, n)
                 IN  IF \/ WordFreq(current, words[i]) * 10 > Len(current)
                        \/ Len(words[i]) > 6
                     THEN Append(kept[i - 1], words[i])
                     ELSE kept[i - 1]
    IN  JoinWords(kept[n])

\* AdvancedOptimizationStrategies._entropy_optimization: a word stays when
\* its share of the words of the prompt is above 0.1 or it has more than 6
\* characters.
entropy_optimization(prompt) ==
    LET words == StrSplit(prompt)
        total_words == Len(words)
        keep(word) == \/ WordFreq(words, word) * 10 > total_words
                      \/ Len(word) > 6
    IN  JoinWords(SelectSeq(words, keep))

\* A table whose replacement is longer, in words, than what it replaces.
semantic_expansions == <<
    <<<<"c", "r", "e", "a", "t", "e", " ", "a">>, <<"b", "u", "i", "l", "d", " ", "a", " ", "n", "e", "w">>>> >>

semantic_replacements == <<
    <<<<"c", "r", "e", "a", "t", "e", " ", "a">>, <<"b", "u", "i", "l", "d">>>>,
    <<<<"i", "m", "p", "l", "e", "m", "e", "n", "t", " ", "a">>, <<"c", "o", "d", "e">>>>,
    <<<<"d", "e", "v", "e", "l", "o", "p", " ", "a">>, <<"m", "a", "k", "e">>>>,
    <<<<"c", "o", "n", "s", "t", "r", "u", "c", "t", " ", "a">>, <<"b", "u", "i", "l", "d">>>>,
    <<<<"g", "e", "n", "e", "r", "a", "t", "e", " ", "a">>, <<"c", "r", "e", "a", "t", "e">>>>,
    <<<<"p", "r", "o", "d", "u", "c", "e", " ", "a">>, <<"m", "a", "k", "e">>>>,
    <<<<"d", "e", "s", "i", "g", "n", " ", "a">>, <<"b", "u", "i", "l", "d">>>>,
    <<<<"e", "s", "t", "a", "b", "l", "i", "s", "h", " ", "a">>, <<"c", "r", "e", "a", "t", "e">>>> >>

\* AdvancedOptimizationStrategies._semantic_compression: the prompt in lower
\* case with the replacements applied in the order of the table.
semantic_compression(prompt) == ReplaceAll(StrLower(prompt), semantic_replacements)

redundant_phrases == <<
    <<<<"p", "l", "e", "a", "s", "e">>, <<>>>>,
    <<<<"k", "i", "n", "d", "l", "y">>, <<>>>>,
    <<<<"i", " ", "w", "o", "u", "l", "d", " ", "l", "i", "k", "e", " ", "t", "o">>, <<>>>>,
    <<<<"i", " ", "n", "e", "e", "d", " ", "t", "o">>, <<>>>>,
    <<<<"c", "o", "u", "l", "d", " ", "y", "o", "u">>, <<>>>>,
    <<<<"w", "o", "u", "l", "d", " ", "y", "o", "u">>, <<>>>>,
    <<<<"i", " ", "w", "a", "n", "t", " ", "t", "o">>, <<>>>> >>

\* AdvancedOptimizationStrategies._context_aware_trimming: every phrase is
\* cut out wherever it occurs, then runs of whitespace become one space.
context_aware_trimming(prompt) ==
    JoinWords(StrSplit(ReplaceAll(prompt, redundant_phrases)))

\* ml_insights.get('complexity_score', 0.5)
InsightComplexity(ml_insights) ==
    IF "complexity_score" \in DOMAIN ml_insights THEN ml_insights.complexity_score ELSE 500

\* A guided transform that takes the branches of the "auto" selection.
ml_guided_as_auto(prompt, ml_insights) ==
    LET complexity == InsightComplexity(ml_insights)
    IN  IF complexity > 700 THEN entropy_optimization(prompt)
        ELSE IF complexity > 400
        THEN context_aware_trimming(semantic_compression(entropy_optimization(prompt)))
        ELSE semantic_compression(prompt)

\* AdvancedOptimizationStrategies._ml_guided_optimization
ml_guided_optimization(prompt, ml_insights) ==
    LET complexity == InsightComplexity(ml_insights)
    IN  IF complexity > 700 THEN entropy_optimization(prompt)
        ELSE IF complexity > 400 THEN semantic_compression(prompt)
        ELSE context_aware_trimming(prompt)

\* AdvancedOptimizationStrategies._adaptive_compression
adaptive_compression(prompt) ==
    context_aware_trimming(semantic_compression(entropy_optimization(prompt)))

-----------------------------------------------------------------------------
(* optimize_prompt of the full backend (app.py), up to the result *)

\* What a failed step of a handler leaves: the exception it raised.
Raised(exception) == [raised |-> exception]

IsRaised(x) == DOMAIN x = {"raised"}

\* MLOptimizationEngine.predict_optimization.  The regressors are scikit-learn's
\* and what they predict is theirs to say: `ml` is what the library calls
\* give, the three predicted numbers or an exception.  The complexity score
\* is computed from the prompt.
predict_optimization(prompt, ml) ==
    IF IsRaised(ml) THEN ml
    ELSE [predicted_cost_reduction |-> ml.predicted_cost_reduction,
          predicted_quality |-> ml.predicted_quality,
          confidence |-> ml.confidence,
          complexity_score |-> calculate_complexity(prompt)]

\* A selection that puts a score of exactly 0.4 on the adaptive side.
SelectStrategyInclusive(hint, ml_insights) ==
    IF hint = "auto"
    THEN IF ml_insights.complexity_score > 700 THEN "ml_guided_optimization"
         ELSE IF ml_insights.complexity_score >= 400 THEN "adaptive_compression"
         ELSE "semantic_compression"
    ELSE hint

\* optimize_prompt, "Select optimization strategy".
SelectStrategy(hint, ml_insights) ==
    IF hint = "auto"
    THEN IF ml_insights.complexity_score > 700 THEN "ml_guided_optimization"
         ELSE IF ml_insights.complexity_score > 400 THEN "adaptive_compression"
         ELSE "semantic_compression"
    ELSE hint

\* opt_strategies.strategies[strategy](...), for a name of the table (the
\* lookup of any other name raises KeyError).
ApplyStrategy(strategy, prompt, ml_insights) ==
    CASE strategy = "entropy_optimization"   -> entropy_optimization(prompt)
      [] strategy = "semantic_compression"   -> semantic_compression(prompt)
      [] strategy = "context_aware_trimming" -> context_aware_trimming(prompt)
      [] strategy = "ml_guided_optimization" -> ml_guided_optimization(prompt, ml_insights)
      [] strategy = "adaptive_compression"   -> adaptive_compression(prompt)

\* len(encoding.encode(text)).  The encoding is tiktoken's cl100k_base, which
\* is not part of the repository; what the handler depends on is that the
\* empty text has no token and any other text has at least one.  The count
\* used here is one token per word, and one for a text of whitespace only.
TiktokenLen(text) ==
    IF text = <<>> THEN 0
    ELSE IF StrSplit(text) = <<>> THEN 1 ELSE Len(StrSplit(text))

\* The OptimizationResult optimize_prompt builds, or the exception raised on
\* the way.  estimated_savings is in millionths; reduction_percentage is the
\* fraction num/den.
BuildResult(request, ml) ==
    LET ml_insights == predict_optimization(request.prompt, ml)
    IN  IF IsRaised(ml_insights) THEN ml_insights
        ELSE
        LET strategy == SelectStrategy(request.optimization_strategy, ml_insights)
            optimized_prompt == ApplyStrategy(strategy, request.prompt, ml_insights)
        IN  IF strategy \notin StrategyNames THEN Raised("KeyError")
            ELSE
            LET original_tokens == TiktokenLen(request.prompt)
                optimized_tokens == TiktokenLen(optimized_prompt)
                cost_reduction == ml_insights.predicted_cost_reduction
            IN  IF original_tokens = 0 THEN Raised("ZeroDivisionError")
                ELSE [original_prompt |-> request.prompt,
                      optimized_prompt |-> optimized_prompt,
                      cost_reduction |-> cost_reduction,
                      quality_score |-> ml_insights.predicted_quality,
                      optimization_strategies |-> <<strategy>>,
                      confidence |-> ml_insights.confidence,
                      estimated_savings |-> cost_reduction * 50,
                      token_analysis |->
                          [original_tokens |-> original_tokens,
                           optimized_tokens |-> optimized_tokens,
                           token_reduction |-> original_tokens - optimized_tokens,
                           reduction_percentage |->
                               [num |-> (original_tokens - optimized_tokens) * 100,
                                den |-> original_tokens]],
                      ml_insights |-> ml_insights]

-----------------------------------------------------------------------------
(* optimize_prompt of the lightweight backend (api/optimize.py) *)

filler_words == {
    <<"t", "h", "e">>,
    <<"a">>,
    <<"a", "n">>,
    <<"a", "n", "d">>,
    <<"o", "r">>,
    <<"b", "u", "t">>,
    <<"i", "n">>,
    <<"o", "n">>,
    <<"a", "t">>,
    <<"t", "o">>,
    <<"f", "o", "r">>,
    <<"o", "f">>,
    <<"w", "i", "t", "h">>,
    <<"b", "y">>,
    <<"p", "l", "e", "a", "s", "e">>,
    <<"k", "i", "n", "d", "l", "y">>,
    <<"w", "o", "u", "l", "d">>,
    <<"c", "o", "u", "l", "d">>,
    <<"s", "h", "o", "u", "l", "d">>,
    <<"m", "i", "g", "h", "t">>,
    <<"m", "a", "y">>,
    <<"c", "a", "n">>,
    <<"w", "i", "l", "l">>,
    <<"s", "h", "a", "l", "l">> }

verbose_replacements == <<
    <<<<"i", "n", " ", "o", "r", "d", "e", "r", " ", "t", "o">>, <<"t", "o">>>>,
    <<<<"d", "u", "e", " ", "t", "o", " ", "t", "h", "e", " ", "f", "a", "c", "t", " ", "t", "h", "a", "t">>, <<"b", "e", "c", "a", "u", "s", "e">>>>,
    <<<<"a", "t", " ", "t", "h", "i", "s", " ", "p", "o", "i", "n", "t", " ", "i", "n", " ", "t", "i", "m", "e">>, <<"n", "o", "w">>>>,
    <<<<"i", " ", "w", "o", "u", "l", "d", " ", "l", "i", "k", "e", " ", "t", "o">>, <<"n", "e", "e", "d">>>>,
    <<<<"c", "a", "n", " ", "y", "o", "u", " ", "h", "e", "l", "p", " ", "m", "e">>, <<"h", "e", "l", "p">>>>,
    <<<<"i", "f", " ", "i", "t", " ", "i", "s", " ", "p", "o", "s", "s", "i", "b", "l", "e">>, <<"i", "f", " ", "p", "o", "s", "s", "i", "b", "l", "e">>>>,
    <<<<"a", "s", " ", "s", "o", "o", "n", " ", "a", "s", " ", "p", "o", "s", "s", "i", "b", "l", "e">>, <<"A", "S", "A", "P">>>>,
    <<<<"w", "i", "t", "h", " ", "r", "e", "g", "a", "r", "d", " ", "t", "o">>, <<"r", "e", "g", "a", "r", "d", "i", "n", "g">>>>,
    <<<<"i", "n", " ", "t", "h", "e", " ", "e", "v", "e", "n", "t", " ", "t", "h", "a", "t">>, <<"i", "f">>>>,
    <<<<"p", "r", "i", "o", "r", " ", "t", "o">>, <<"b", "e", "f", "o", "r", "e">>>>,
    <<<<"s", "u", "b", "s", "e", "q", "u", "e", "n", "t", " ", "t", "o">>, <<"a", "f", "t", "e", "r">>>>,
    <<<<"i", "n", " ", "t", "h", "e", " ", "n", "e", "a", "r", " ", "f", "u", "t", "u", "r", "e">>, <<"s", "o", "o", "n">>>>,
    <<<<"i", "n", " ", "t", "h", "e", " ", "m", "e", "a", "n", "t", "i", "m", "e">>, <<"m", "e", "a", "n", "w", "h", "i", "l", "e">>>>,
    <<<<"f", "o", "r", " ", "t", "h", "e", " ", "p", "u", "r", "p", "o", "s", "e", " ", "o", "f">>, <<"t", "o">>>>,
    <<<<"i", "n", " ", "t", "h", "e", " ", "c", "a", "s", "e", " ", "o", "f">>, <<"i", "f">>>>,
    <<<<"w", "i", "t", "h", " ", "r", "e", "f", "e", "r", "e", "n", "c", "e", " ", "t", "o">>, <<"r", "e", ":">>>>,
    <<<<"i", "n", " ", "a", "c", "c", "o", "r", "d", "a", "n", "c", "e", " ", "w", "i", "t", "h">>, <<"p", "e", "r">>>>,
    <<<<"i", "n", " ", "t", "h", "e", " ", "a", "b", "s", "e", "n", "c", "e", " ", "o", "f">>, <<"w", "i", "t", "h", "o", "u", "t">>>>,
    <<<<"i", "n", " ", "t", "h", "e", " ", "p", "r", "e", "s", "e", "n", "c", "e", " ", "o", "f">>, <<"w", "i", "t", "h">>>>,
    <<<<"i", "n", " ", "t", "h", "e", " ", "c", "o", "n", "t", "e", "x", "t", " ", "o", "f">>, <<"i", "n">>>>,
    <<<<"w", "i", "t", "h", " ", "r", "e", "s", "p", "e", "c", "t", " ", "t", "o">>, <<"r", "e", ":">>>>,
    <<<<"i", "n", " ", "t", "e", "r", "m", "s", " ", "o", "f">>, <<"f", "o", "r">>>>,
    <<<<"f", "r", "o", "m", " ", "t", "h", "e", " ", "p", "e", "r", "s", "p", "e", "c", "t", "i", "v", "e", " ", "o", "f">>, <<"f", "r", "o", "m">>>>,
    <<<<"i", "n", " ", "t", "h", "e", " ", "f", "o", "r", "m", " ", "o", "f">>, <<"a", "s">>>>,
    <<<<"i", "n", " ", "t", "h", "e", " ", "p", "r", "o", "c", "e", "s", "s", " ", "o", "f">>, <<"w", "h", "i", "l", "e">>>>,
    <<<<"i", "n", " ", "t", "h", "e", " ", "c", "o", "u", "r", "s", "e", " ", "o", "f">>, <<"d", "u", "r", "i", "n", "g">>>>,
    <<<<"i", "n", " ", "t", "h", "e", " ", "m", "i", "d", "s", "t", " ", "o", "f">>, <<"a", "m", "i", "d">>>>,
    <<<<"i", "n", " ", "t", "h", "e", " ", "w", "a", "k", "e", " ", "o", "f">>, <<"a", "f", "t", "e", "r">>>>,
    <<<<"i", "n", " ", "t", "h", "e", " ", "f", "a", "c", "e", " ", "o", "f">>, <<"d", "e", "s", "p", "i", "t", "e">>>>,
    <<<<"i", "n", " ", "t", "h", "e", " ", "l", "i", "g", "h", "t", " ", "o", "f">>, <<"g", "i", "v", "e", "n">>>> >>

\* "Remove redundant punctuation and spacing", after the spaces are cleaned up.
punctuation_replacements == <<
    <<<<" ", " ">>, <<" ">>>>,
    <<<<" ", ",">>, <<",">>>>,
    <<<<" ", ".">>, <<".">>>>,
    <<<<" ", "?">>, <<"?">>>>,
    <<<<" ", "!">>, <<"!">>>> >>

\* "Optimize common patterns"
pattern_replacements == <<
    <<<<"c", "r", "e", "a", "t", "e", " ", "a">>, <<"c", "r", "e", "a", "t", "e">>>>,
    <<<<"b", "u", "i", "l", "d", " ", "a">>, <<"b", "u", "i", "l", "d">>>>,
    <<<<"m", "a", "k", "e", " ", "a">>, <<"m", "a", "k", "e">>>>,
    <<<<"g", "e", "n", "e", "r", "a", "t", "e", " ", "a">>, <<"g", "e", "n", "e", "r", "a", "t", "e">>>>,
    <<<<"i", "m", "p", "l", "e", "m", "e", "n", "t", " ", "a">>, <<"i", "m", "p", "l", "e", "m", "e", "n", "t">>>>,
    <<<<"d", "e", "v", "e", "l", "o", "p", " ", "a">>, <<"d", "e", "v", "e", "l", "o", "p">>>> >>

\* "Remove filler words": a word goes when its lower case is a filler word
\* and it has at most 3 characters.
RemoveFillers(text) ==
    LET keep(word) == StrLower(word) \notin filler_words \/ Len(word) > 3
    IN  JoinWords(SelectSeq(StrSplit(text), keep))

\* The text optimize_prompt(prompt) arrives at.
api_optimized(prompt) ==
    LET replaced == ReplaceAll(prompt, verbose_replacements)
        filtered == RemoveFillers(replaced)
        spaced   == JoinWords(StrSplit(filtered))
        punctuated == ReplaceAll(spaced, punctuation_replacements)
        patterned  == ReplaceAll(punctuated, pattern_replacements)
    IN  StrStrip(patterned)

\* optimize_prompt(prompt) of api/optimize.py.  Costs are in thousandths; a
\* quotient is the fraction num/den.
api_optimize_prompt(prompt) ==
    LET original_tokens == Len(StrSplit(prompt))
        optimized == api_optimized(prompt)
        optimized_tokens == Len(StrSplit(optimized))
        token_reduction == IF original_tokens > optimized_tokens
                           THEN original_tokens - optimized_tokens ELSE 0
        denominator == IF original_tokens > 1 THEN original_tokens ELSE 1
        quality_score == [num |-> Min(950 * denominator,
                                      850 * denominator + 300 * token_reduction),
                          den |-> denominator]
    IN  [original_prompt |-> prompt,
         optimized_prompt |-> optimized,
         cost_reduction |-> token_reduction * 2,
         quality_score |-> quality_score,
         token_analysis |->
             [original_tokens |-> original_tokens,
              optimized_tokens |-> optimized_tokens,
              reduction_percentage |->
                  IF original_tokens > 0
                  THEN [num |-> token_reduction * 100, den |-> original_tokens]
                  ELSE [num |-> 0, den |-> 1]],
         ml_insights |->
             [complexity_score |-> [num |-> Min(50, original_tokens), den |-> 50],
              optimization_potential |-> [num |-> Min(10, token_reduction), den |-> 10],
              confidence |-> quality_score,
              strategy_effectiveness |-> [num |-> Min(5, token_reduction), den |-> 5]],
         optimization_strategies |->
             <<"filler_removal", "verbose_phrase_replacement",
               "punctuation_optimization", "pattern_optimization">>]

-----------------------------------------------------------------------------
(* simple_optimize_prompt of the minimal backend (simple_app.py) *)

simple_redundant_phrases == <<
    <<"p", "l", "e", "a", "s", "e">>,
    <<"k", "i", "n", "d", "l", "y">>,
    <<"i", "f", " ", "p", "o", "s", "s", "i", "b", "l", "e">>,
    <<"i", "f", " ", "y", "o", "u", " ", "c", "a", "n">>,
    <<"w", "o", "u", "l", "d", " ", "y", "o", "u", " ", "m", "i", "n", "d">>,
    <<"i", " ", "w", "o", "u", "l", "d", " ", "l", "i", "k", "e", " ", "t", "o">>,
    <<"i", " ", "w", "a", "n", "t", " ", "t", "o">>,
    <<"i", " ", "n", "e", "e", "d", " ", "t", "o">>,
    <<"c", "a", "n", " ", "y", "o", "u", " ", "h", "e", "l", "p", " ", "m", "e">> >>

\* "Simplify complex sentences"
simple_replacements == <<
    <<<<"i", "n", " ", "o", "r", "d", "e", "r", " ", "t", "o">>, <<"t", "o">>>>,
    <<<<"d", "u", "e", " ", "t", "o", " ", "t", "h", "e", " ", "f", "a", "c", "t", " ", "t", "h", "a", "t">>, <<"b", "e", "c", "a", "u", "s", "e">>>>,
    <<<<"a", "t", " ", "t", "h", "i", "s", " ", "p", "o", "i", "n", "t", " ", "i", "n", " ", "t", "i", "m", "e">>, <<"n", "o", "w">>>> >>

\* optimized_text.replace(phrase, "").strip() for each phrase in turn.
RECURSIVE StripEach(_, _, _)
StripEach(text, phrases, k) ==
    IF text = <<>> \/ k > Len(phrases) THEN text
    ELSE StripEach(StrStrip(StrReplace(text, phrases[k], <<>>)), phrases, k + 1)

\* The text simple_optimize_prompt(prompt) arrives at.  The words filtered
\* by "Strategy 1" are computed and not used.
simple_optimized(prompt) ==
    LET stripped == StripEach(prompt, simple_redundant_phrases, 1)
        simplified == ReplaceAll(stripped, simple_replacements)
    IN  JoinWords(StrSplit(simplified))

\* simple_optimize_prompt(prompt, context) of simple_app.py, or the
\* exception of the division by original_tokens.  Costs and scores are in
\* thousandths; a quotient is the fraction num/den.
simple_optimize_prompt(prompt) ==
    LET original_tokens == Len(StrSplit(prompt))
        optimized_text == simple_optimized(prompt)
        optimized_tokens == Len(StrSplit(optimized_text))
        token_reduction == IF original_tokens > optimized_tokens
                           THEN original_tokens - optimized_tokens ELSE 0
        quality_score == [num |-> Min(950 * original_tokens,
                                      800 * original_tokens + 300 * token_reduction),
                          den |-> original_tokens]
    IN  IF original_tokens = 0 THEN Raised("ZeroDivisionError")
        ELSE [original_prompt |-> prompt,
              optimized_prompt |-> optimized_text,
              cost_reduction |-> token_reduction * 2,
              quality_score |-> quality_score,
              token_analysis |->
                  [original_tokens |-> original_tokens,
                   optimized_tokens |-> optimized_tokens,
                   reduction_percentage |->
                       [num |-> token_reduction * 100, den |-> original_tokens]],
              ml_insights |->
                  [complexity_score |-> [num |-> Min(50, original_tokens), den |-> 50],
                   optimization_potential |-> [num |-> Min(10, token_reduction), den |-> 10],
                   confidence |-> quality_score],
              optimization_strategies |->
                  <<"filler_removal", "redundancy_reduction", "sentence_simplification">>]

-----------------------------------------------------------------------------
(* The metrics history (RealTimeAnalytics) *)

\* Numbers with a fraction (costs, scores) are counted in thousandths.
\* update_metrics keeps the last HistoryCap entries.
HistoryCap == 1000

InitMetrics ==
    /\ metrics_history = <<>>
    /\ clock = 0
    /\ agg_calls = <<>>

\* s[:n]
KeepFirst(s, n) == SubSeq(s, 1, IF n < Len(s) THEN n ELSE Len(s))

\* s[-n:]
KeepLast(s, n) == SubSeq(s, IF Len(s) > n THEN Len(s) - n + 1 ELSE 1, Len(s))

\* A record step that trims before it appends.
TrimThenAppend(history, entry) ==
    Append(IF Len(history) > HistoryCap THEN KeepLast(history, HistoryCap) ELSE history,
           entry)

\* A record step seen between its append and its trim.
AppendNoTrim(history, entry) == Append(history, entry)

\* The history after update_metrics has appended `entry` to `history`.
AppendThenTrim(history, entry) ==
    LET appended == Append(history, entry)
    IN  IF Len(appended) > HistoryCap THEN KeepLast(appended, HistoryCap) ELSE appended

\* What an entry contributes to a column of the data frame: its cost
\* reduction, or 1 when its quality score is above 0.9 (and 0 otherwise).
Measure(e, column) ==
    IF column = "cost_reduction" THEN e.cost_reduction
    ELSE IF e.quality_score > 900 THEN 1 ELSE 0

\* The sum of a column over s[lo..hi], by halving (the history is long).
RECURSIVE SumRange(_, _, _, _)
SumRange(s, column, lo, hi) ==
    IF lo > hi THEN 0
    ELSE IF lo = hi THEN Measure(s[lo], column)
    ELSE LET mid == (lo + hi) \div 2
         IN  SumRange(s, column, lo, mid) + SumRange(s, column, mid + 1, hi)

\* The mean of a column over s[lo..hi], as the fraction num/den.
MeanRange(s, column, lo, hi) ==
    [num |-> SumRange(s, column, lo, hi), den |-> hi - lo + 1]

\* explode().value_counts().head(5): how often each strategy name occurs in
\* the entries' strategy lists.  optimize_prompt records one of five names,
\* so head(5) drops none.
StrategyCounts(history) ==
    LET occurs(name) ==
            UNION {{<<i, j>> : j \in {k \in 1..Len(history[i].optimization_strategies) :
                                         history[i].optimization_strategies[k] = name}} :
                   i \in 1..Len(history)}
        present == {n \in StrategyNames : occurs(n) # {}}
    IN  [n \in present |-> Cardinality(occurs(n))]

\* len(df)
TotalOptimizations(history) == Len(history)

\* The value get_real_time_analytics returns for `history`.
Analytics(history) ==
    IF history = <<>>
    THEN [total_optimizations |-> 0, average_savings |-> 0,
          total_savings |-> 0, success_rate |-> 0]
    ELSE LET n == Len(history)
         IN  [total_optimizations |-> TotalOptimizations(history),
              average_savings |-> MeanRange(history, "cost_reduction", 1, n),
              total_savings   |-> SumRange(history, "cost_reduction", 1, n),
              success_rate    |-> MeanRange(history, "quality_score > 0.9", 1, n),
              recent_trend    |-> MeanRange(history, "cost_reduction",
                                            IF n > 10 THEN n - 9 ELSE 1, n),
              top_strategies  |-> StrategyCounts(history)]

\* The count a snapshot of `history` reports: Analytics(history).total_optimizations.
AnalyticsTotal(history) ==
    IF history = <<>> THEN 0 ELSE TotalOptimizations(history)

\* The last three calls, newest last.
NoteCall(c) == agg_calls' = KeepLast(Append(agg_calls, c), 3)

\* RealTimeAnalytics.update_metrics(result): the entry is the result with the
\* time of the call.
update_metrics(result) ==
    /\ clock' = clock + 1
    /\ metrics_history' =
          AppendThenTrim(metrics_history, [timestamp |-> clock + 1] @@ result)
    /\ NoteCall([op |-> "update_metrics", total |-> 0])

\* RealTimeAnalytics.get_real_time_analytics(): a read.
get_real_time_analytics ==
    /\ NoteCall([op |-> "get_real_time_analytics",
                 total |-> AnalyticsTotal(metrics_history)])
    /\ UNCHANGED <<metrics_history, clock>>

-----------------------------------------------------------------------------
(* The aggregator on its own: results are recorded one after the other and
   the analytics are read in between. *)

\* Number of update_metrics calls in a run: past the capacity of the history.
MaxRecords == 1002

\* The n-th result recorded: costs, scores and strategy names that vary from
\* one call to the next.
SampleResult(n) ==
    [cost_reduction |-> 50 + 100 * (n % 3),
     quality_score |-> IF n % 2 = 0 THEN 950 ELSE 880,
     optimization_strategies |->
         << CASE n % 5 = 0 -> "entropy_optimization"
              [] n % 5 = 1 -> "semantic_compression"
              [] n % 5 = 2 -> "context_aware_trimming"
              [] n % 5 = 3 -> "ml_guided_optimization"
              [] OTHER     -> "adaptive_compression" >>]

MetricsInit == InitRegistry /\ InitMetrics /\ InitHandlers /\ pending = {}

MetricsNext ==
    \/ /\ clock < MaxRecords
       /\ update_metrics(SampleResult(clock + 1))
       /\ UNCHANGED <<regVars, bcVars, optVars, ep>>
    \/ /\ get_real_time_analytics
       /\ UNCHANGED <<regVars, bcVars, optVars, ep>>

SpecMetrics == MetricsInit /\ [][MetricsNext]_vars

\* The entry update_metrics stored at its n-th call.
EntryOf(n) == [timestamp |-> n] @@ SampleResult(n)

\* C3: the history never holds more than 1000 entries; it holds the most
\* recent min(calls, 1000) recorded entries in the order they were recorded,
\* so each record past the capacity evicts exactly the oldest entry, and
\* after 1001 records the length is 1000 and the first entry is the missing one.
C3_BoundedFifoHistory ==
    /\ Len(metrics_history) = Min(clock, HistoryCap)
    /\ \A i \in 1..Len(metrics_history) :
           metrics_history[i] = EntryOf(clock - Len(metrics_history) + i)

\* C3's case: 1001 records, 1000 entries, the oldest is the second recorded.
C3_Witness ==
    /\ clock = HistoryCap + 1
    /\ Len(metrics_history) = HistoryCap
    /\ metrics_history[1].timestamp = 2

\* The last three calls were a snapshot, a record and a snapshot.
SnapshotRecordSnapshot ==
    /\ Len(agg_calls) = 3
    /\ agg_calls[1].op = "get_real_time_analytics"
    /\ agg_calls[2].op = "update_metrics"
    /\ agg_calls[3].op = "get_real_time_analytics"

\* C4 as stated: a record followed at once by a snapshot reports a count one
\* greater than the snapshot just before the record.
C4_RecordAddsOneToCount ==
    SnapshotRecordSnapshot => agg_calls[3].total = agg_calls[1].total + 1

\* C4, amended: the count is one greater when the history held fewer than
\* 1000 entries before the record, and stays 1000 when it was full.
C4_RecordAddsOneBelowCapacity ==
    SnapshotRecordSnapshot =>
        agg_calls[3].total = IF agg_calls[1].total < HistoryCap
                             THEN agg_calls[1].total + 1
                             ELSE HistoryCap

\* C4's case: a snapshot of 999, a record, a snapshot of 1000.
C4_Witness ==
    /\ SnapshotRecordSnapshot
    /\ agg_calls[1].total = HistoryCap - 1
    /\ agg_calls[3].total = HistoryCap

\* The last call was a read of the analytics.
LastIsSnapshot ==
    /\ agg_calls # <<>>
    /\ agg_calls[Len(agg_calls)].op = "get_real_time_analytics"

\* C14: however records and reads interleave, a read reports the history as
\* it is after a whole number of completed records: the count it reports is
\* that of the last min(records, 1000) entries, never that of a history
\* appended to and not yet trimmed.
C14_SnapshotOfWholeRecords ==
    LastIsSnapshot =>
        /\ agg_calls[Len(agg_calls)].total = Min(clock, HistoryCap)
        /\ agg_calls[Len(agg_calls)].total = AnalyticsTotal(metrics_history)

\* C14's case: a read right after the record that evicted the first entry.
C14_Witness ==
    /\ LastIsSnapshot
    /\ Len(agg_calls) = 3
    /\ agg_calls[2].op = "update_metrics"
    /\ clock = HistoryCap + 1
    /\ agg_calls[3].total = HistoryCap

\* The six fields of a snapshot.
SnapshotFields ==
    {"total_optimizations", "average_savings", "total_savings",
     "success_rate", "recent_trend", "top_strategies"}

\* The cost reductions of the last k entries, added one by one.
RECURSIVE RecentCost(_, _)
RecentCost(history, k) ==
    IF k = 0 THEN 0
    ELSE history[Len(history) - k + 1].cost_reduction + RecentCost(history, k - 1)

\* C20: a read of the analytics returns the six fields for every history,
\* the empty one included, where count, mean, sum and success rate are 0;
\* for a non-empty history the recent trend is the mean cost reduction of
\* the last min(10, count) entries and the success rate is the fraction of
\* entries whose quality score is strictly above 0.9.
C20_SnapshotHasSixFields ==
    LastIsSnapshot =>
        LET snapshot == Analytics(metrics_history)
            n == Len(metrics_history)
        IN  /\ DOMAIN snapshot = SnapshotFields
            /\ n = 0 => /\ snapshot.total_optimizations = 0
                        /\ snapshot.average_savings = 0
                        /\ snapshot.total_savings = 0
                        /\ snapshot.success_rate = 0
            /\ n > 0 => /\ snapshot.total_optimizations = n
                        /\ snapshot.recent_trend =
                               [num |-> RecentCost(metrics_history, Min(10, n)),
                                den |-> Min(10, n)]
                        /\ snapshot.success_rate =
                               [num |-> Cardinality({i \in 1..n :
                                            metrics_history[i].quality_score > 900}),
                                den |-> n]

-----------------------------------------------------------------------------
(* Broadcasting *)

\* A for loop over a Python list keeps an index into the live list: each
\* round it yields list[i] and advances, and it ends when i reaches the
\* length the list has at that moment.  frame.i counts the elements yielded.
ListIterNext(list, frame) ==
    IF frame.i < Len(list)
    THEN [frame EXCEPT !.pc = "sending", !.cur = list[frame.i + 1], !.i = frame.i + 1]
    ELSE [frame EXCEPT !.pc = "loop_end", !.cur = 0]

\* The handles of `gone` that are still registered are removed, in order.
RECURSIVE RemoveEach(_, _)
RemoveEach(list, gone) ==
    IF gone = <<>> THEN list
    ELSE RemoveEach(IF Head(gone) \in Range(list) THEN ListRemove(list, Head(gone)) ELSE list,
                    Tail(gone))

\* What the observation variables record when the loop hands out a handle.
NoteAttempt(frame) ==
    attempts' = IF frame.pc = "sending"
                THEN [attempts EXCEPT ![frame.cur] = @ + 1]
                ELSE attempts

CanCall == bc.pc = "idle"

\* The broadcast call is over (it returned or it raised) and its caller goes on.
broadcast_return ==
    /\ bc.pc \in {"done", "raised"}
    /\ bc' = NoBroadcast
    /\ UNCHANGED <<regVars, attempts, delivered, reg0>>

\* ConnectionManager.broadcast, from the call to the first await.
ConnectionManager_broadcast_call ==
    /\ CanCall
    /\ LET f == ListIterNext(active_connections,
                             [NoBroadcast EXCEPT !.impl = "app"])
       IN  /\ bc' = IF f.pc = "loop_end" THEN [f EXCEPT !.pc = "done"] ELSE f
           /\ attempts' = IF f.pc = "sending"
                          THEN [h \in Handles |-> IF h = f.cur THEN 1 ELSE 0]
                          ELSE [h \in Handles |-> 0]
    /\ delivered' = {}
    /\ reg0' = active_connections
    /\ UNCHANGED regVars

\* ConnectionManager.broadcast, from the end of one send to the next await
\* or to the return.  A send that raised is handled by removing the handle
\* from the list the loop is iterating over; list.remove raises ValueError
\* when the handle is no longer there, and nothing in broadcast catches it.
ConnectionManager_broadcast_resume ==
    /\ bc.pc = "sending"
    /\ bc.impl = "app"
    /\ IF bc.cur \in dead /\ bc.cur \notin Range(active_connections)
       THEN /\ bc' = [bc EXCEPT !.pc = "raised"]
            /\ UNCHANGED <<active_connections, attempts, delivered>>
       ELSE LET list == IF bc.cur \in dead
                        THEN ListRemove(active_connections, bc.cur)
                        ELSE active_connections
                f == ListIterNext(list, bc)
            IN  /\ active_connections' = list
                /\ bc' = IF f.pc = "loop_end" THEN [f EXCEPT !.pc = "done"] ELSE f
                /\ NoteAttempt(f)
                /\ delivered' = IF bc.cur \in dead THEN delivered
                                ELSE delivered \cup {bc.cur}
    /\ UNCHANGED <<accepted, dead, reg0>>

\* broadcast_message (api/optimize.py, start-fastapi.py), from the call to
\* the first await.  An empty registry skips the whole body.
broadcast_message_call ==
    /\ CanCall
    /\ LET f == ListIterNext(active_connections,
                             [NoBroadcast EXCEPT !.impl = "api"])
       IN  /\ bc' = IF f.pc = "loop_end" THEN [f EXCEPT !.pc = "done"] ELSE f
           /\ attempts' = IF f.pc = "sending"
                          THEN [h \in Handles |-> IF h = f.cur THEN 1 ELSE 0]
                          ELSE [h \in Handles |-> 0]
    /\ delivered' = {}
    /\ reg0' = active_connections
    /\ UNCHANGED regVars

\* broadcast_message, from the end of one send to the next await or to the
\* return.  A handle whose send raised is noted in the local list
\* `disconnected`; after the loop the noted handles that are still
\* registered are removed.
broadcast_message_resume ==
    /\ bc.pc = "sending"
    /\ bc.impl = "api"
    /\ LET noted == IF bc.cur \in dead
                    THEN [bc EXCEPT !.disconnected = Append(@, bc.cur)]
                    ELSE bc
           f == ListIterNext(active_connections, noted)
       IN  /\ bc' = IF f.pc = "loop_end" THEN [f EXCEPT !.pc = "done"] ELSE f
           /\ active_connections' =
                  IF f.pc = "loop_end"
                  THEN RemoveEach(active_connections, f.disconnected)
                  ELSE active_connections
           /\ NoteAttempt(f)
           /\ delivered' = IF bc.cur \in dead THEN delivered
                           ELSE delivered \cup {bc.cur}
    /\ UNCHANGED <<accepted, dead, reg0>>

-----------------------------------------------------------------------------
(* One broadcast at a time, with nothing else running during the call: the
   registry is filled and clients go away only between two calls. *)

BroadcastInit == InitRegistry /\ InitMetrics /\ InitHandlers /\ pending = {}

BroadcastNext ==
    \/ \E h \in Handles : CanCall /\ connect(h) /\ UNCHANGED <<bcVars, metVars, optVars, ep>>
    \/ \E h \in Handles : CanCall /\ ClientDrop(h) /\ UNCHANGED <<bcVars, metVars, optVars, ep>>
    \/ ConnectionManager_broadcast_call /\ UNCHANGED <<metVars, optVars, ep>>
    \/ ConnectionManager_broadcast_resume /\ UNCHANGED <<metVars, optVars, ep>>
    \/ broadcast_message_call /\ UNCHANGED <<metVars, optVars, ep>>
    \/ broadcast_message_resume /\ UNCHANGED <<metVars, optVars, ep>>
    \/ broadcast_return /\ UNCHANGED <<metVars, optVars, ep>>

SpecBroadcast == BroadcastInit /\ [][BroadcastNext]_vars

\* The handles that were registered when the broadcast started and whose
\* send raises.
FailingAtStart == dead \cap Range(reg0)

\* reg0 without the handles whose send raises, in the same order.
Survivors == SelectSeq(reg0, LAMBDA h : h \notin dead)

\* C1: when exactly one of the subscribers registered at the start of a
\* broadcast has a failing send, the registry after the call is the
\* registry before it without that subscriber: it is removed, and no other
\* subscriber is; for every registry length and every position of the
\* failing subscriber, in ConnectionManager.broadcast and broadcast_message.
C1_OnlyFailingSubscriberRemoved ==
    (bc.pc = "done" /\ Cardinality(FailingAtStart) = 1)
        => active_connections = Survivors

\* C1's case: three subscribers, the middle one fails, ConnectionManager.broadcast
\* has returned and two are left.
C1_Witness ==
    /\ bc.pc = "done"
    /\ bc.impl = "app"
    /\ Len(reg0) = 3
    /\ FailingAtStart = {reg0[2]}
    /\ Len(active_connections) = 2

\* C2: in one broadcast call every subscriber registered at its start gets
\* exactly one send attempt, whichever other subscribers' sends fail.
C2_EverySubscriberSentOnce ==
    bc.pc = "done" => \A h \in Range(reg0) : attempts[h] = 1

-----------------------------------------------------------------------------
(* The handlers of POST /optimize and of /ws *)

\* What the regressors of MLOptimizationEngine give for a request: an
\* exception of the library, or the three numbers they predict.
MLOutcomes ==
    { Raised("Exception"),
      [predicted_cost_reduction |-> 200, predicted_quality |-> 880, confidence |-> 1000],
      [predicted_cost_reduction |-> 350, predicted_quality |-> 970, confidence |-> 500] }

\* optimize_prompt (app.py), from the request to the first await or to the
\* exception: the result is built, update_metrics records it and
\* manager.broadcast is called.  `except Exception` turns whatever was raised
\* into HTTPException(status_code=500).
optimize_prompt_call(request) ==
    /\ opt.pc = "idle"
    /\ request \in pending
    /\ pending' = pending \ {request}
    /\ \E ml \in MLOutcomes :
         LET result == BuildResult(request, ml)
         IN  IF IsRaised(result)
             THEN /\ response' = [status |-> 500, backend |-> "app", request |-> request,
                                  detail |-> result.raised, steps |-> <<>>,
                                  history0 |-> metrics_history,
                                  history |-> metrics_history, delivered |-> {}]
                  /\ UNCHANGED <<opt, regVars, bcVars, metVars, ended>>
             ELSE /\ update_metrics(result)
                  /\ ConnectionManager_broadcast_call
                  /\ opt' = [pc |-> "broadcasting", request |-> request,
                             result |-> result, history0 |-> metrics_history,
                             steps |-> <<"update_metrics", "broadcast">>]
                  /\ UNCHANGED <<response, ended>>

\* optimize_prompt (app.py), after `await manager.broadcast(...)`: the result
\* is returned, or the exception that came out of broadcast is turned into
\* HTTPException(status_code=500) like any other.
optimize_prompt_return ==
    /\ opt.pc = "broadcasting"
    /\ bc.pc \in {"done", "raised"}
    /\ response' = IF bc.pc = "done"
                   THEN [status |-> 200, backend |-> "app", request |-> opt.request,
                         result |-> opt.result, steps |-> opt.steps,
                         history0 |-> opt.history0,
                         history |-> metrics_history, delivered |-> delivered]
                   ELSE [status |-> 500, backend |-> "app", request |-> opt.request,
                         detail |-> "ValueError", steps |-> opt.steps,
                         history0 |-> opt.history0,
                         history |-> metrics_history, delivered |-> delivered]
    /\ opt' = NoCall
    /\ bc' = NoBroadcast
    /\ attempts' = [h \in Handles |-> 0]
    /\ delivered' = {}
    /\ reg0' = <<>>
    /\ UNCHANGED <<regVars, metVars, pending, ended>>

\* optimize (api/optimize.py; start-fastapi.py has the same handler): the
\* result of optimize_prompt(request.prompt) is returned.  The handler reads
\* nothing else of the request, and it touches neither a history nor the
\* registry.
optimize(request) ==
    /\ opt.pc = "idle"
    /\ request \in pending
    /\ pending' = pending \ {request}
    /\ response' = [status |-> 200, backend |-> "api", request |-> request,
                    result |-> api_optimize_prompt(request.prompt), steps |-> <<>>,
                    history0 |-> metrics_history,
                    history |-> metrics_history, delivered |-> {}]
    /\ UNCHANGED <<opt, regVars, bcVars, metVars, ended>>

\* optimize_prompt of simple_app.py: the result of simple_optimize_prompt is
\* returned, and `except Exception` turns what it raised into
\* HTTPException(status_code=500).
simple_app_optimize_prompt(request) ==
    /\ opt.pc = "idle"
    /\ request \in pending
    /\ pending' = pending \ {request}
    /\ LET result == simple_optimize_prompt(request.prompt)
           common == [backend |-> "simple", request |-> request, steps |-> <<>>,
                      history0 |-> metrics_history,
                      history |-> metrics_history, delivered |-> {}]
       IN  response' = IF IsRaised(result)
                       THEN [status |-> 500, detail |-> result.raised] @@ common
                       ELSE [status |-> 200, result |-> result] @@ common
    /\ UNCHANGED <<opt, regVars, bcVars, metVars, ended>>

\* websocket_endpoint (app.py), `await manager.connect(websocket)`.  The
\* handles are numbered in the order they connect.
websocket_endpoint_connect(h) ==
    /\ \A earlier \in 1..(h - 1) : earlier \in accepted
    /\ connect(h)
    /\ UNCHANGED <<bcVars, metVars, optVars>>

\* One pusher for all the subscribers: once a task has ended on a failed
\* send, nobody is pushed to any more.
websocket_endpoint_push_shared(h) ==
    /\ ended = {}
    /\ h \in accepted
    /\ IF h \notin dead
       THEN UNCHANGED <<active_connections, ended>>
       ELSE /\ ended' = ended \cup {h}
            /\ \E exception \in {"WebSocketDisconnect", "RuntimeError"} :
                 active_connections' =
                     IF exception = "WebSocketDisconnect" /\ h \in Range(active_connections)
                     THEN ListRemove(active_connections, h)
                     ELSE active_connections
    /\ UNCHANGED <<accepted, dead, bcVars, metVars, opt, response, pending>>

\* websocket_endpoint (app.py), one round of the loop after the sleep: the
\* analytics are read (which changes nothing) and sent to the handle.  While
\* the client is there the round leaves the state as it is.  When the client
\* has gone the send raises: on WebSocketDisconnect the handler calls
\* manager.disconnect, whose list.remove raises ValueError if the handle is
\* no longer registered; any other exception passes through the handler.
\* Either way the task ends.
websocket_endpoint_push(h) ==
    /\ h \in accepted \ ended
    /\ IF h \notin dead
       THEN UNCHANGED <<active_connections, ended>>
       ELSE /\ ended' = ended \cup {h}
            /\ \E exception \in {"WebSocketDisconnect", "RuntimeError"} :
                 active_connections' =
                     IF exception = "WebSocketDisconnect" /\ h \in Range(active_connections)
                     THEN ListRemove(active_connections, h)
                     ELSE active_connections
    /\ UNCHANGED <<accepted, dead, bcVars, metVars, opt, response, pending>>

\* The client of h goes away while the server runs.
client_drop(h) ==
    /\ ClientDrop(h)
    /\ UNCHANGED <<bcVars, metVars, optVars>>

-----------------------------------------------------------------------------
(* One request, answered by either backend with nobody connected *)

EmptyPrompt == <<>>
BlankPrompt == <<" ">>
\* Prompts with 0, 2, 3 and 4 of the complexity indicators.
PlainPrompt == <<"P", "l", "e", "a", "s", "e", " ", "c", "r", "e", "a", "t", "e", " ", "a", " ", "b", "o", "t">>
TwoIndicators == <<"P", "l", "e", "a", "s", "e", " ", "c", "r", "e", "a", "t", "e", " ", "a", " ", "r", "e", "a", "l", "-", "t", "i", "m", "e", " ", "a", "l", "g", "o", "r", "i", "t", "h", "m">>
ThreeIndicators == <<"P", "l", "e", "a", "s", "e", " ", "c", "r", "e", "a", "t", "e", " ", "a", " ", "r", "e", "a", "l", "-", "t", "i", "m", "e", " ", "c", "o", "n", "c", "u", "r", "r", "e", "n", "t", " ", "a", "l", "g", "o", "r", "i", "t", "h", "m">>
FourIndicators == <<"R", "e", "a", "l", "-", "t", "i", "m", "e", " ", "c", "o", "n", "c", "u", "r", "r", "e", "n", "t", " ", "a", "l", "g", "o", "r", "i", "t", "h", "m", " ", "p", "e", "r", "f", "o", "r", "m", "a", "n", "c", "e", " ", "a", " ", "b", " ", "c", " ", "d", " ", "e", " ", "f">>

\* A listed phrase inside another one, and phrases that run into the next word.
NestedPhrase == <<"p", "l", "p", "l", "e", "a", "s", "e", "e", "a", "s", "e", " ", "c", "r", "e", "a", "t", "e", " ", "a", "p", "p", "l", "e", "s", " ", "p", "r", "i", "o", "r", " ", "t", "o", " ", "l", "u", "n", "c", "h">>

\* Twelve words: one occurs twice, one is long, the others are rare and short.
RareWords == <<"t", "o", " ", "t", "o", " ", "a", " ", "b", " ", "c", " ", "d", " ", "e", " ", "f", " ", "g", " ", "h", " ", "i", " ", "l", "e", "n", "g", "t", "h", "y">>

Prompts == {EmptyPrompt, BlankPrompt, PlainPrompt, TwoIndicators,
            ThreeIndicators, FourIndicators, NestedPhrase, RareWords}

Hints == StrategyNames \cup {"auto", "bogus"}

Requests == [prompt : Prompts, optimization_strategy : Hints]

OptimizeInit ==
    /\ InitRegistry /\ InitMetrics /\ InitHandlers
    /\ \E request \in Requests : pending = {request}

OptimizeNext ==
    \/ \E request \in pending : optimize_prompt_call(request) /\ UNCHANGED ep
    \/ optimize_prompt_return /\ UNCHANGED ep
    \/ \E request \in pending : optimize(request) /\ UNCHANGED ep
    \/ \E request \in pending : simple_app_optimize_prompt(request) /\ UNCHANGED ep

SpecOptimize == OptimizeInit /\ [][OptimizeNext]_vars

\* The request of the last response carries a hint that is neither "auto"
\* nor a name of the strategy table.
UnknownHint ==
    /\ response.status # 0
    /\ response.request.optimization_strategy \notin StrategyNames \cup {"auto"}

\* C8: an optimize call whose hint is neither "auto" nor a recognized name is
\* answered with a client error (InvalidStrategy), never with a result and
\* never with a server error.
C8_UnknownHintRejected ==
    UnknownHint => response.status \in 400..499

\* The request of the last response carries an empty or whitespace-only prompt.
BlankRequest ==
    /\ response.status # 0
    /\ StrStrip(response.request.prompt) = <<>>

\* C9: an optimize call whose prompt is empty or whitespace-only is answered
\* with a client error (InvalidInput), never with an OptimizationResult.
C9_BlankPromptRejected ==
    BlankRequest => response.status \in 400..499

\* What the auto policy is to produce from a prompt, by its complexity score
\* alone.
AutoChoice(prompt) ==
    IF calculate_complexity(prompt) > 700 THEN entropy_optimization(prompt)
    ELSE IF calculate_complexity(prompt) > 400 THEN adaptive_compression(prompt)
    ELSE semantic_compression(prompt)

\* The full backend has returned a result for a request with hint "auto".
AutoAnswered ==
    /\ response.status = 200
    /\ response.backend = "app"
    /\ response.request.optimization_strategy = "auto"

\* C10: with hint "auto" the full backend's optimized prompt is the
\* entropy-pruned prompt when the complexity score is above 0.7, the adaptive
\* composition when it is above 0.4 and at most 0.7, and the
\* phrase-replaced prompt when it is at most 0.4, whatever the regressors
\* predict.
C10_AutoStrategyByComplexity ==
    AutoAnswered =>
        response.result.optimized_prompt = AutoChoice(response.request.prompt)

\* C10's case: a score of exactly 0.4 gets the phrase replacement alone,
\* which differs from what the adaptive composition would give.
C10_Witness ==
    /\ AutoAnswered
    /\ calculate_complexity(response.request.prompt) = 400
    /\ response.result.optimized_prompt = semantic_compression(response.request.prompt)
    /\ response.result.optimized_prompt # adaptive_compression(response.request.prompt)

\* len(text.split())
WordCount(text) == Len(StrSplit(text))

\* A request with a non-empty prompt was answered with a result.
AnsweredNonEmpty ==
    /\ response.status = 200
    /\ response.request.prompt # EmptyPrompt

\* C16: for every non-empty prompt and every strategy, the optimized prompt
\* has at most as many whitespace-separated tokens as the original.
C16_TokenCountNeverGrows ==
    AnsweredNonEmpty =>
        WordCount(response.result.optimized_prompt)
            <= WordCount(response.request.prompt)

\* C16's case: semantic_compression joined "create a" and the next word, and
\* the prompt lost a token.
C16_Witness ==
    /\ AnsweredNonEmpty
    /\ response.backend = "app"
    /\ response.request = [prompt |-> NestedPhrase,
                           optimization_strategy |-> "semantic_compression"]
    /\ WordCount(response.result.optimized_prompt) = 5
    /\ WordCount(response.request.prompt) = 6

\* A score as the fraction num/den of thousandths: app.py's scores are
\* whole thousandths, those of the other two backends are quotients.
ScoreOf(backend, x) == IF backend = "app" THEN [num |-> x, den |-> 1] ELSE x

\* A request whose prompt has at least one token was answered with a result.
AnsweredWithTokens ==
    /\ response.status = 200
    /\ WordCount(response.request.prompt) >= 1

\* C17: for every prompt of at least one token, the quality score of the
\* result lies in [0.85, 0.95], and the confidence of the insight bundle
\* equals the quality score.
C17_QualityBoundedAndConfidence ==
    AnsweredWithTokens =>
        LET quality == ScoreOf(response.backend, response.result.quality_score)
            confidence == ScoreOf(response.backend,
                                  response.result.ml_insights.confidence)
        IN  /\ 850 * quality.den <= quality.num
            /\ quality.num <= 950 * quality.den
            /\ confidence = quality

\* The per-token rate of the lightweight backends, $0.002, in thousandths.
PerTokenRate == 2

\* C18: for every result, the token reduction is max(0, original tokens -
\* optimized tokens), and the cost reduction is the token reduction times
\* the per-token rate; neither is negative.
C18_CostIsReductionTimesRate ==
    response.status = 200 =>
        LET analysis == response.result.token_analysis
            difference == analysis.original_tokens - analysis.optimized_tokens
            reduction == IF difference > 0 THEN difference ELSE 0
        IN  /\ response.backend = "app" => analysis.token_reduction = reduction
            /\ response.result.cost_reduction = reduction * PerTokenRate
            /\ response.result.cost_reduction >= 0

\* The result in hand is the prompt after redundant-phrase stripping.
TrimmedOnce ==
    /\ response.status = 200
    /\ response.backend = "app"
    /\ response.result.optimization_strategies = <<"context_aware_trimming">>

\* C19: redundant-phrase stripping is idempotent: stripping the stripped
\* prompt again gives the same text, also when removing one listed phrase
\* joins the characters around it into another listed phrase.
C19_TrimmingIdempotent ==
    TrimmedOnce =>
        context_aware_trimming(response.result.optimized_prompt)
            = response.result.optimized_prompt

\* The full backend has returned a result for a request with the explicit
\* hint "ml_guided_optimization".
MlGuidedAnswered ==
    /\ response.status = 200
    /\ response.backend = "app"
    /\ response.request.optimization_strategy = "ml_guided_optimization"

\* C21 as stated: with the explicit hint ml_guided_optimization the
\* optimized prompt is the one hint "auto" gives for the same prompt, in
\* each of the three ranges of the complexity score.
C21_MlGuidedSameAsAuto ==
    MlGuidedAnswered =>
        response.result.optimized_prompt = AutoChoice(response.request.prompt)

\* C21, amended: the explicit hint branches at the same scores 0.4 and 0.7;
\* above 0.7 it gives what "auto" gives (the entropy-pruned prompt), above
\* 0.4 and at most 0.7 the phrase-replaced prompt, and at most 0.4 the
\* prompt with the redundant phrases stripped.
C21_MlGuidedBranches ==
    MlGuidedAnswered =>
        LET prompt == response.request.prompt
            score == calculate_complexity(prompt)
        IN  response.result.optimized_prompt =
                IF score > 700 THEN AutoChoice(prompt)
                ELSE IF score > 400 THEN semantic_compression(prompt)
                ELSE context_aware_trimming(prompt)

\* C21's case: a score of 0.6, where the explicit hint replaces phrases and
\* "auto" would have given the adaptive composition, a different text.
C21_Witness ==
    /\ MlGuidedAnswered
    /\ response.request.prompt = ThreeIndicators
    /\ response.result.optimized_prompt = semantic_compression(ThreeIndicators)
    /\ response.result.optimized_prompt # AutoChoice(ThreeIndicators)

\* The full backend has returned the entropy-pruned prompt.
EntropyAnswered ==
    /\ response.status = 200
    /\ response.backend = "app"
    /\ response.result.optimization_strategies = <<"entropy_optimization">>

\* The positions of the words that occur in more than a tenth of the
\* positions of `words` or have more than 6 characters.
KeptPositions(words) ==
    {i \in 1..Len(words) :
        \/ Cardinality({j \in 1..Len(words) : words[j] = words[i]}) * 10 > Len(words)
        \/ Len(words[i]) > 6}

\* C22: entropy-based pruning returns exactly the tokens of the prompt whose
\* relative frequency in the original token sequence is above 0.1 or whose
\* length is above 6, in their original order: the k-th token of the output
\* is the token at the k-th kept position of the prompt.
C22_EntropyKeepsSubsequence ==
    EntropyAnswered =>
        LET words == StrSplit(response.request.prompt)
            out == StrSplit(response.result.optimized_prompt)
            positions == KeptPositions(words)
        IN  /\ Len(out) = Cardinality(positions)
            /\ \A i \in positions :
                   out[Cardinality({j \in positions : j <= i})] = words[i]

\* C22's case: of twelve words the repeated one and the long one are kept,
\* and the ten rare short ones are dropped, the later ones too.
C22_Witness ==
    /\ EntropyAnswered
    /\ response.request.prompt = RareWords
    /\ StrSplit(response.result.optimized_prompt)
           = <<<<"t", "o">>, <<"t", "o">>, <<"l", "e", "n", "g", "t", "h", "y">>>>

-----------------------------------------------------------------------------
(* The server at work: clients connect to /ws and go away, the endpoint
   tasks push analytics, and requests are answered while they do *)

\* The requests that arrive in a run.
Arrivals == [prompt : {PlainPrompt, ThreeIndicators}, optimization_strategy : {"auto"}]

Init ==
    /\ InitRegistry /\ InitMetrics /\ InitHandlers
    /\ pending = Arrivals

Next ==
    \/ \E h \in Handles : websocket_endpoint_connect(h) /\ UNCHANGED ep
    \/ \E h \in Handles : client_drop(h) /\ UNCHANGED ep
    \/ \E h \in Handles : websocket_endpoint_push(h) /\ UNCHANGED ep
    \/ \E request \in pending : optimize_prompt_call(request) /\ UNCHANGED ep
    \/ ConnectionManager_broadcast_resume /\ UNCHANGED <<metVars, optVars, ep>>
    \/ optimize_prompt_return /\ UNCHANGED ep
    \/ \E request \in pending : optimize(request) /\ UNCHANGED ep

Spec == Init /\ [][Next]_vars

\* C5: when an optimize call is answered with an error, the metrics history
\* is what it was before the call and no subscriber was sent the call's
\* result.
C5_FailedCallLeavesNoTrace ==
    response.status = 500 =>
        /\ response.history = response.history0
        /\ response.delivered = {}

\* C6: a call whose result was built (the record and broadcast steps were
\* entered) is answered with that result, whatever happens in those steps.
C6_SideEffectFailureContained ==
    (response.status # 0 /\ response.steps # <<>>) => response.status = 200

\* The entry without its timestamp.
ResultOf(entry) == [field \in DOMAIN entry \ {"timestamp"} |-> entry[field]]

\* C7: a result is returned only after it was recorded in the metrics
\* history and then broadcast: the steps of the call are the record and the
\* broadcast, in this order, and the newest entry of the history is the
\* result returned.
C7_RecordedThenBroadcastThenReturned ==
    response.status = 200 =>
        /\ response.steps = <<"update_metrics", "broadcast">>
        /\ response.history # <<>>
        /\ ResultOf(response.history[Len(response.history)]) = response.result

\* C11: a handle whose send has failed is out of the registry from then on
\* and no later send goes to it.  The endpoint task of a handle ends only
\* when its push to the handle has failed.
C11_FailedSendRemovesHandle ==
    /\ \A h \in ended : h \notin Range(active_connections)
    /\ bc.pc = "sending" => bc.cur \notin ended

\* The broadcast returned and none of its own sends raised.
BroadcastDoneNoFailedSend ==
    /\ bc.pc = "done"
    /\ \A h \in Handles : attempts[h] > 0 => h \in delivered

\* The handles registered from the start of the broadcast to its end (a
\* handle is registered once, so it was there all along).
StayedRegistered == Range(reg0) \cap Range(active_connections)

\* C15: when subscribers connect or go away while a broadcast is suspended
\* in a send, every subscriber that stays in the registry for the whole call
\* gets exactly one send attempt; here for the calls in which no send of the
\* broadcast itself failed, so that only the concurrent changes are at work.
C15_ConcurrentChangeSkipsNone ==
    BroadcastDoneNoFailedSend => \A h \in StayedRegistered : attempts[h] = 1

-----------------------------------------------------------------------------
(* websocket_endpoint of the lightweight backend (api/optimize.py; the same
   code is in start-fastapi.py) *)

\* What a client may send: a JSON object with one of these types or with no
\* "type" key ("none"), JSON that is not an object, and text that is not JSON.
InboundMessages ==
    [json : {"object"}, type : {"ping", "get_analytics", "subscribe", "none"}]
        \cup {[json |-> "array", type |-> "none"],
              [json |-> "malformed", type |-> "none"]}

\* A reply that answers an unrecognized type with an error.
ReplyStrict(message) ==
    IF message.json = "malformed" THEN Raised("JSONDecodeError")
    ELSE IF message.json # "object" THEN Raised("AttributeError")
    ELSE IF message.type = "ping" THEN [type |-> "pong"]
    ELSE IF message.type = "get_analytics" THEN [type |-> "analytics_update"]
    ELSE [type |-> "error", message |-> "unknown type"]

\* The body of the receive loop for the text received: json.loads raises on
\* text that is not JSON, message.get raises on JSON that is not an object,
\* and the reply is chosen by message.get("type").
Reply(message) ==
    IF message.json = "malformed" THEN Raised("JSONDecodeError")
    ELSE IF message.json # "object" THEN Raised("AttributeError")
    ELSE IF message.type = "ping" THEN [type |-> "pong"]
    ELSE IF message.type = "get_analytics" THEN [type |-> "analytics_update"]
    ELSE [type |-> "echo", received |-> message]

\* The message `except Exception as e` sends.
ErrorMessage(exception) == [type |-> "error", message |-> exception]

\* The exceptions a send or a receive on a connection whose client has gone
\* may raise.
ClosedExceptions == {"WebSocketDisconnect", "RuntimeError"}

\* A finally clause that leaves the registry as it is.
FinallyKeeps(h) == active_connections' = active_connections

\* The finally clause: the handle is removed if it is registered.
Finally(h) ==
    active_connections' = IF h \in Range(active_connections)
                          THEN ListRemove(active_connections, h)
                          ELSE active_connections

\* All the clients of a run talk to the same server.
SameServer(impl) == \A h \in accepted : ep[h].impl = impl

\* websocket_endpoint, from the accepted connection to the await of the
\* first send: the handle is appended and the confirmation is built with the
\* length the registry has then.  The handles are numbered in the order they
\* connect.
api_websocket_connect(h) ==
    /\ SameServer("api")
    /\ \A earlier \in 1..(h - 1) : earlier \in accepted
    /\ connect(h)
    /\ ep' = [ep EXCEPT ![h] =
                 [NoEndpoint EXCEPT
                     !.impl = "api", !.pc = "sending", !.where = "ack",
                     !.out = [type |-> "connection_established",
                              active_connections |-> Len(active_connections) + 1],
                     !.registered0 = Len(active_connections) + 1]]
    /\ UNCHANGED <<bcVars, metVars, optVars>>

\* websocket_endpoint, from the end of a send to the next await.  A send that
\* went through is followed by the next receive.  A send that raised ends the
\* task through the finally clause, except for a reply that raised something
\* other than WebSocketDisconnect: `except Exception` sends an error message
\* to the same handle.
api_websocket_sent(h) ==
    /\ ep[h].impl = "api"
    /\ ep[h].pc = "sending"
    /\ IF h \notin dead
       THEN /\ ep' = [ep EXCEPT ![h] =
                        [@ EXCEPT !.pc = "receiving",
                                  !.first = IF @ = NoMessage THEN ep[h].out ELSE @]]
            /\ UNCHANGED active_connections
       ELSE \E exception \in ClosedExceptions :
              IF ep[h].where = "reply" /\ exception # "WebSocketDisconnect"
              THEN /\ ep' = [ep EXCEPT ![h] =
                               [@ EXCEPT !.where = "error",
                                         !.out = ErrorMessage(exception)]]
                   /\ UNCHANGED active_connections
              ELSE /\ ep' = [ep EXCEPT ![h] =
                               [@ EXCEPT !.pc = "ended", !.where = "none",
                                         !.inbound = NoMessage, !.out = NoMessage]]
                   /\ Finally(h)
    /\ UNCHANGED <<accepted, dead, bcVars, metVars, optVars>>

\* websocket_endpoint, from the text received to the await of the reply's send.
api_websocket_receive(h, message) ==
    /\ ep[h].impl = "api"
    /\ ep[h].pc = "receiving"
    /\ h \notin dead
    /\ LET reply == Reply(message)
       IN  ep' = [ep EXCEPT ![h] =
                     [@ EXCEPT !.pc = "sending", !.inbound = message,
                               !.where = IF IsRaised(reply) THEN "error" ELSE "reply",
                               !.out = IF IsRaised(reply)
                                       THEN ErrorMessage(reply.raised) ELSE reply]]
    /\ UNCHANGED <<regVars, bcVars, metVars, optVars>>

\* websocket_endpoint, receive_text on a connection whose client has gone:
\* WebSocketDisconnect breaks the loop and the finally clause runs; anything
\* else is caught by `except Exception`, which sends an error message.
api_websocket_closed(h) ==
    /\ ep[h].impl = "api"
    /\ ep[h].pc = "receiving"
    /\ h \in dead
    /\ \E exception \in ClosedExceptions :
         IF exception = "WebSocketDisconnect"
         THEN /\ ep' = [ep EXCEPT ![h] = [@ EXCEPT !.pc = "ended"]]
              /\ Finally(h)
         ELSE /\ ep' = [ep EXCEPT ![h] =
                          [@ EXCEPT !.pc = "sending", !.where = "error",
                                    !.out = ErrorMessage(exception)]]
              /\ UNCHANGED active_connections
    /\ UNCHANGED <<accepted, dead, bcVars, metVars, optVars>>

-----------------------------------------------------------------------------
(* The live-update channel: clients connect to /ws of one of the servers,
   send messages and go away *)

\* Number of clients that connect to /ws in a run.
MaxClients == 2

Clients == 1..MaxClients

ChannelInit ==
    /\ InitRegistry /\ InitMetrics /\ InitHandlers
    /\ pending = {}

ChannelNext ==
    \/ \E h \in Clients : api_websocket_connect(h)
    \/ \E h \in Clients : api_websocket_sent(h)
    \/ \E h \in Clients : \E message \in InboundMessages :
           api_websocket_receive(h, message)
    \/ \E h \in Clients : api_websocket_closed(h)
    \/ \E h \in Clients : client_drop(h) /\ UNCHANGED ep
    \/ \E h \in Clients :
           /\ SameServer("app")
           /\ websocket_endpoint_connect(h)
           /\ ep' = [ep EXCEPT ![h] =
                        [NoEndpoint EXCEPT !.impl = "app", !.pc = "pushing",
                                           !.registered0 = Len(active_connections) + 1]]
    \/ \E h \in Clients :
           /\ ep[h].impl = "app"
           /\ websocket_endpoint_push(h)
           /\ ep' = [ep EXCEPT ![h] =
                        IF h \in dead THEN [@ EXCEPT !.pc = "ended"]
                        ELSE [@ EXCEPT !.first = IF @ = NoMessage
                                                 THEN [type |-> "analytics_update"]
                                                 ELSE @]]

SpecChannel == ChannelInit /\ [][ChannelNext]_vars

\* C12: the first message a handle receives is the connection
\* acknowledgement, and the count it carries is the number of handles the
\* registry held when the handle was added, the new handle included.
C12_FirstMessageIsAcknowledgement ==
    \A h \in Handles :
        ep[h].first # NoMessage =>
            ep[h].first = [type |-> "connection_established",
                           active_connections |-> ep[h].registered0]

\* The client of h is there and the last message it sent has a type other
\* than ping and get_analytics.
UnrecognizedInbound(h) ==
    /\ h \notin dead
    /\ ep[h].inbound # NoMessage
    /\ ep[h].inbound.type \notin {"ping", "get_analytics"}

\* The message of h was answered with an echo of it, and h is still served
\* and registered.
EchoedAndConnected(h) ==
    /\ ep[h].out = [type |-> "echo", received |-> ep[h].inbound]
    /\ ep[h].pc \in {"sending", "receiving"}
    /\ h \in Range(active_connections)

\* C13 as stated: every inbound message whose type is neither ping nor
\* get_analytics is answered with an echo, and the subscriber stays connected
\* and registered.
C13_UnrecognizedEchoed ==
    \A h \in Handles : UnrecognizedInbound(h) => EchoedAndConnected(h)

\* C13, amended: every inbound JSON object whose type is neither ping nor
\* get_analytics (or that has no type) is answered with an echo, and the
\* subscriber stays connected and registered.
C13_UnrecognizedObjectEchoed ==
    \A h \in Handles :
        (UnrecognizedInbound(h) /\ ep[h].inbound.json = "object")
            => EchoedAndConnected(h)

\* C13's case: a "subscribe" message was echoed and the next receive is
\* awaited.
C13_Witness ==
    \E h \in Handles :
        /\ UnrecognizedInbound(h)
        /\ ep[h].inbound.type = "subscribe"
        /\ ep[h].pc = "receiving"
        /\ EchoedAndConnected(h)

\* The tasks whose next send raises, so that on WebSocketDisconnect they
\* call manager.disconnect.
AboutToDisconnect == (accepted \cap dead) \ ended

\* C24: however ConnectionManager.broadcast and the disconnect path of a
\* subscriber's task interleave, no removal is attempted on a handle that is
\* no longer registered: broadcast does not raise, and a task that may call
\* disconnect finds its handle in the registry.
C24_NoDoubleRemoval ==
    /\ bc.pc # "raised"
    /\ \A h \in AboutToDisconnect : h \in Range(active_connections)

-----------------------------------------------------------------------------
(* The periodic pushes of app.py's /ws tasks, with the scheduling of the
   event loop: a task that is ready to run is run. *)

\* websocket_endpoint (app.py), accepted and registered; what the client has
\* been sent is noted from here on.
websocket_endpoint_start(h) ==
    /\ websocket_endpoint_connect(h)
    /\ ep' = [ep EXCEPT ![h] = [NoEndpoint EXCEPT !.impl = "app", !.pc = "pushing"]]

\* One round of the loop of h's task, with the message the client receives:
\* the analytics read in that round, and whether the round is an odd or an
\* even one.  Nothing is received in the round that ends the task, and what
\* was received before is of no interest from then on.
websocket_endpoint_round(h) ==
    /\ websocket_endpoint_push(h)
    /\ ep' = [ep EXCEPT ![h] =
                 IF h \in dead THEN [@ EXCEPT !.pc = "ended", !.out = NoMessage]
                 ELSE [@ EXCEPT !.out =
                          [type |-> "analytics_update",
                           total |-> AnalyticsTotal(metrics_history),
                           round |-> IF @ = NoMessage THEN 1 ELSE 1 - @.round]]]

\* The request that arrives while the pushes go on.
PushArrivals == {[prompt |-> PlainPrompt, optimization_strategy |-> "auto"]}

PushInit ==
    /\ InitRegistry /\ InitMetrics /\ InitHandlers
    /\ pending = PushArrivals

PushNext ==
    \/ \E h \in Clients : websocket_endpoint_start(h)
    \/ \E h \in Clients : client_drop(h) /\ UNCHANGED ep
    \/ \E h \in Clients : websocket_endpoint_round(h)
    \/ \E request \in pending : optimize_prompt_call(request) /\ UNCHANGED ep
    \/ ConnectionManager_broadcast_resume /\ UNCHANGED <<metVars, optVars, ep>>
    \/ optimize_prompt_return /\ UNCHANGED ep

\* asyncio.sleep(5) ends and the event loop resumes the task: a round that
\* can be taken is taken.  Nothing is assumed of the clients, of the
\* requests, or of the sends of a broadcast.
PushFairness == \A h \in Clients : WF_vars(websocket_endpoint_round(h))

SpecPush == PushInit /\ [][PushNext]_vars /\ PushFairness

\* h is registered, its client is there and its task runs.
Connected(h) == h \in accepted /\ h \notin dead /\ h \notin ended

\* The last message h received is the push of an odd (1) or even (0) round.
PushedRound(h, round) == ep[h].out # NoMessage /\ ep[h].out.round = round

\* C23: a subscriber that stays connected receives a push again and again,
\* whatever the other subscribers and the broadcasts do, and every push
\* carries the count of the history as it is at that push.
C23_ConnectedPushedForever ==
    /\ \A h \in Clients :
           <>[]Connected(h) => ([]<>PushedRound(h, 1) /\ []<>PushedRound(h, 0))
    /\ [][\A h \in Clients :
             (ep'[h].out # ep[h].out /\ ep'[h].out # NoMessage) =>
                 /\ ep'[h].out.total = Len(metrics_history)
                 /\ metrics_history' = metrics_history]_vars

\* C23's case: the task of subscriber 1 has ended on a failed send, a
\* broadcast is suspended in a send, and subscriber 2 has had its second
\* push, which carries the count after the recorded result.
C23_Witness ==
    /\ 1 \in ended
    /\ bc.pc = "sending"
    /\ Connected(2)
    /\ PushedRound(2, 0)
    /\ ep[2].out.total = 1

-----------------------------------------------------------------------------
(* The registry of api/optimize.py: the /ws tasks, and broadcast_message,
   which no route of the file calls, run side by side *)

\* What the clients send: a message that is answered and a text that raises.
RegistryMessages ==
    {[json |-> "object", type |-> "ping"], [json |-> "malformed", type |-> "none"]}

RegistryInit ==
    /\ InitRegistry /\ InitMetrics /\ InitHandlers
    /\ pending = {}

RegistryNext ==
    \/ \E h \in Clients : api_websocket_connect(h)
    \/ \E h \in Clients : api_websocket_sent(h)
    \/ \E h \in Clients : \E message \in RegistryMessages :
           api_websocket_receive(h, message)
    \/ \E h \in Clients : api_websocket_closed(h)
    \/ \E h \in Clients : client_drop(h) /\ UNCHANGED ep
    \/ broadcast_message_call /\ UNCHANGED <<metVars, optVars, ep>>
    \/ broadcast_message_resume /\ UNCHANGED <<metVars, optVars, ep>>
    \/ broadcast_return /\ UNCHANGED <<metVars, optVars, ep>>

SpecRegistry == RegistryInit /\ [][RegistryNext]_vars

\* The task of h is between its first send and its end.
TaskRunning(h) == ep[h].pc \in {"sending", "receiving"}

\* A broadcast is under way and has not yet come to h.
NotYetTried(h) == bc.pc = "sending" /\ attempts[h] = 0

\* C25: when the task of a handle has ended, by a disconnect, a failed send
\* or any other exception, the handle is not in the registry; and at every
\* moment the registry holds a handle at most once, and only handles whose
\* task is running or that a broadcast has not yet tried to send to.
C25_RegistryHoldsRunningTasks ==
    \A h \in Handles :
        /\ ep[h].pc = "ended" => h \notin Range(active_connections)
        /\ Cardinality({i \in 1..Len(active_connections) : active_connections[i] = h}) <= 1
        /\ h \in Range(active_connections) => (TaskRunning(h) \/ NotYetTried(h))

\* C25's case: a broadcast has noted handle 1 for removal and is suspended
\* in the send to handle 2; the task of handle 1 has ended meanwhile and its
\* finally clause has removed it.
C25_Witness ==
    /\ bc.pc = "sending"
    /\ bc.cur = 2
    /\ 1 \in Range(bc.disconnected)
    /\ ep[1].pc = "ended"
    /\ active_connections = <<2>>

====
